---- MODULE Spec2Model ----
(***************************************************************************)
(* A model of telescope/telescope.py: the Telescope client class, which    *)
(* owns one websocket to the TelescopeServer and sends one JSON command    *)
(* frame per call, reading one JSON reply frame back.                      *)
(*                                                                         *)
(* Python values are records [t, v]: the type's name and the value's text  *)
(* (str(value)).  A wire frame is a record [kind, pairs]: a JSON object    *)
(* (kind "object", its members in order as <<key, JSON literal>>), a JSON  *)
(* text that is no object (kind "array") or a text that is not JSON (kind  *)
(* "text").  The websocket library and the server are the environment:     *)
(* each call of send and recv draws its outcome from the outcomes the      *)
(* library can produce.                                                    *)
(***************************************************************************)
EXTENDS Integers, Sequences, FiniteSets, TLC

\* ------------------------------------------------------------------ bounds

\* Command frames of one Telescope object that are sent and not yet answered.
MaxPending == 2

\* ----------------------------------------------------------- Python values

PyNone == [t |-> "NoneType", v |-> "None"]
PyTrue == [t |-> "bool", v |-> "True"]
PyFalse == [t |-> "bool", v |-> "False"]
PyStr(s) == [t |-> "str", v |-> s]
PyInt(s) == [t |-> "int", v |-> s]
PyEmptyList == [t |-> "list", v |-> "[]"]
\* No value at all: the call raised.
NoValue == [t |-> "-", v |-> "-"]

\* bool(value): Python's truth test, as `not x` and `x or y` apply it.
Truthy(p) ==
    ~ \/ p.t = "NoneType"
      \/ p.t = "bool" /\ p.v = "False"
      \/ p.t = "int" /\ p.v = "0"
      \/ p.t = "str" /\ p.v = ""
      \/ p.t = "list" /\ p.v = "[]"

\* `a or b`
PyOr(a, b) == IF Truthy(a) THEN a ELSE b

\* str(value), as an f-string formats it.
Str(p) == p.v

\* -------------------------------------------------------------------- JSON

\* json.dumps of one value: its JSON literal.
JsonText(p) ==
    CASE p.t = "NoneType" -> "null"
      [] p.t = "bool" -> (IF p.v = "True" THEN "true" ELSE "false")
      [] p.t = "str" -> "\"" \o p.v \o "\""
      [] OTHER -> p.v

\* The values a reply of the server carries in this model.
ReplyValues ==
    {PyNone, PyTrue, PyFalse, PyInt("0"), PyInt("1"), PyStr(""),
     PyStr("bad weather"), PyEmptyList}

\* json.loads of one JSON literal.
JsonValue(text) == CHOOSE p \in ReplyValues : JsonText(p) = text

\* json.dumps of a dict, given as its items in insertion order.
json_dumps(items) ==
    [kind |-> "object",
     pairs |-> [i \in 1..Len(items) |-> <<items[i][1], JsonText(items[i][2])>>]]

NoFrame == [kind |-> "none", pairs |-> <<>>]
\* A frame that is not JSON, and one that is JSON but no object.
GarbageFrame == [kind |-> "text", pairs |-> <<>>]
ArrayFrame == [kind |-> "array", pairs |-> <<>>]

\* json.loads of an object frame: the dict, a later member replacing an
\* earlier one of the same key.
json_loads(frame) ==
    LET keys == {frame.pairs[i][1] : i \in 1..Len(frame.pairs)}
        at(k) == CHOOSE i \in 1..Len(frame.pairs) :
                    /\ frame.pairs[i][1] = k
                    /\ \A j \in 1..Len(frame.pairs) :
                          frame.pairs[j][1] = k => j <= i
    IN  [k \in keys |-> JsonValue(frame.pairs[at(k)][2])]

\* dict.get(key): None for a missing key.
Get(d, k) == IF k \in DOMAIN d THEN d[k] ELSE PyNone

\* -------------------------------------------------------------- exceptions

NoExc == [type |-> "-", msg |-> "-"]
Exc(type, msg) == [type |-> type, msg |-> msg]
AttributeErrorNone == Exc("AttributeError", "'NoneType' object has no attribute")
AttributeErrorGet == Exc("AttributeError", "'list' object has no attribute 'get'")
JSONDecodeError == Exc("JSONDecodeError", "Expecting value")
ClosedError == Exc("WebSocketConnectionClosedException", "socket is already closed.")
LostError == Exc("WebSocketConnectionClosedException", "Connection to remote host was lost.")
TimeoutError == Exc("WebSocketTimeoutException", "timed out")
SendError == Exc("BrokenPipeError", "Broken pipe")
RefusedError == Exc("ConnectionRefusedError", "Connection refused")
NameError(name) == Exc("NameError", "name '" \o name \o "' is not defined")

\* ------------------------------------------------- the websocket (library)

\* What the environment does to one recv on an open channel, beside handing
\* over a frame: the connection is lost (the channel is closed), or the read
\* gives up with the channel still open (a socket timeout, which
\* websocket.setdefaulttimeout sets for every connection of the process).
LostConn == [kind |-> "lost", pairs |-> <<>>]
TimedOut == [kind |-> "timeout", pairs |-> <<>>]

\* websocket.send(frame) on channel c of ch: <<the channels after, the
\* exception raised or NoExc>>.  sendOut is the environment's part.
ws_send(ch, c, sendOut) ==
    IF ch[c].state = "closed" THEN <<ch, ClosedError>>
    ELSE IF sendOut = "fail"
         THEN <<[ch EXCEPT ![c].state = "closed"], SendError>>
         ELSE <<ch, NoExc>>

\* websocket.recv() on channel c of ch: <<the channels after, the exception
\* raised or NoExc, the frame read or NoFrame>>.
ws_recv(ch, c, recvOut) ==
    IF ch[c].state = "closed" THEN <<ch, ClosedError, NoFrame>>
    ELSE IF recvOut = LostConn
         THEN <<[ch EXCEPT ![c].state = "closed"], LostError, NoFrame>>
    ELSE IF recvOut = TimedOut THEN <<ch, TimeoutError, NoFrame>>
    ELSE <<ch, NoExc, recvOut>>

\* websocket.close(): closing a closed channel does nothing.
ws_close(ch, c) == [ch EXCEPT ![c].state = "closed"]

\* ---------------------------------------------------------- the log records

LogRec(level, msg) == [level |-> level, msg |-> msg]

\* ------------------------------------------------------------- run_command

\* What one call did: how it ended (outcome "returned" with value, or
\* "raised" with exc), the exception its command dispatch raised (inner,
\* whether or not the call let it out), the channels after it, the websocket
\* it hands back or stores (ws, 0: None), the channel operations it made in
\* order (a "!" marks one that raised), the frames it wrote, the frame it
\* read and the records it logged.
Effect(outcome, value, exc, ch, ops, frames, reply, logs) ==
    [outcome |-> outcome, value |-> value, exc |-> exc, inner |-> exc,
     chan |-> ch, ws |-> 0, ops |-> ops, frames |-> frames, reply |-> reply,
     logs |-> logs]

Raised(exc, ch, ops, frames, reply, logs) ==
    Effect("raised", NoValue, exc, ch, ops, frames, reply, logs)

Returned(value, ch, ops, frames, reply, logs) ==
    Effect("returned", value, NoExc, ch, ops, frames, reply, logs)

\* run_command_result, had it returned `reply.get('result') or None`.
run_command_result_OrNone(reply) ==
    IF ~Truthy(Get(reply, "success"))
    THEN [value |-> PyNone,
          logs |-> <<LogRec("WARNING", "Unable to execute command: "
                       \o Str(PyOr(Get(reply, "result"), PyStr("unknown reason"))))>>]
    ELSE [value |-> PyOr(Get(reply, "result"), PyNone),
          logs |-> <<LogRec("INFO", Str(Get(reply, "result")))>>]

\* The value run_command returns for the parsed reply (a dict), and what it
\* logs.
run_command_result(reply) ==
    IF ~Truthy(Get(reply, "success"))
    THEN [value |-> PyNone,
          logs |-> <<LogRec("WARNING", "Unable to execute command: "
                       \o Str(PyOr(Get(reply, "result"), PyStr("unknown reason"))))>>]
    ELSE [value |-> Get(reply, "result"),
          logs |-> <<LogRec("INFO", Str(Get(reply, "result")))>>]

\* Telescope.run_command(command, **kwargs) on an object whose websocket is
\* ws (0: None), with the channels ch.  kwargs are the keyword arguments in
\* order, as <<name, value>>.
run_command(ch, ws, command, kwargs, sendOut, recvOut) ==
    LET msg == <<<<"command", PyStr(command)>>>> \o kwargs
        frame == json_dumps(msg)
    IN
    IF ws = 0 THEN Raised(AttributeErrorNone, ch, <<>>, <<>>, NoFrame, <<>>)
    ELSE
    LET s == ws_send(ch, ws, sendOut) IN
    IF s[2] # NoExc THEN Raised(s[2], s[1], <<"send!">>, <<>>, NoFrame, <<>>)
    ELSE
    LET r == ws_recv(s[1], ws, recvOut) IN
    IF r[2] # NoExc
    THEN Raised(r[2], r[1], <<"send", "recv!">>, <<frame>>, NoFrame, <<>>)
    ELSE IF r[3].kind = "text"
    THEN Raised(JSONDecodeError, r[1], <<"send", "recv">>, <<frame>>, r[3], <<>>)
    ELSE IF r[3].kind # "object"
    THEN Raised(AttributeErrorGet, r[1], <<"send", "recv">>, <<frame>>, r[3], <<>>)
    ELSE
    LET res == run_command_result(json_loads(r[3])) IN
    Returned(res.value, r[1], <<"send", "recv">>, <<frame>>, r[3], res.logs)

\* ---------------------------------------------------------------- is_alive

\* is_alive, had it caught the websocket's exceptions only.
is_alive_NarrowExcept(ch, ws, sendOut, recvOut) ==
    LET e == run_command(ch, ws, "is_alive", <<>>, sendOut, recvOut) IN
    IF e.outcome = "raised"
    THEN IF e.exc.type \in {"WebSocketConnectionClosedException",
                            "WebSocketTimeoutException"}
         THEN [e EXCEPT !.outcome = "returned", !.value = PyFalse, !.exc = NoExc,
                        !.logs = e.logs \o <<LogRec("WARNING", e.exc.msg)>>]
         ELSE e
    ELSE [e EXCEPT !.value = PyTrue]

\* Telescope.is_alive(): any Exception of the dispatch is logged and turned
\* into False.
is_alive(ch, ws, sendOut, recvOut) ==
    LET e == run_command(ch, ws, "is_alive", <<>>, sendOut, recvOut) IN
    IF e.outcome = "raised"
    THEN [e EXCEPT !.outcome = "returned", !.value = PyFalse, !.exc = NoExc,
                   !.logs = e.logs \o <<LogRec("WARNING", e.exc.msg)>>]
    ELSE [e EXCEPT !.value = PyTrue]

\* -------------------------------------------------------------- disconnect

\* disconnect, had it returned True without closing the websocket.
disconnect_NoClose(ch, ws) ==
    IF ws = 0 THEN Raised(AttributeErrorNone, ch, <<>>, <<>>, NoFrame, <<>>)
    ELSE Returned(PyTrue, ch, <<>>, <<>>, NoFrame, <<>>)

\* Telescope.disconnect(): closes the websocket and returns True.
disconnect(ch, ws) ==
    IF ws = 0 THEN Raised(AttributeErrorNone, ch, <<>>, <<>>, NoFrame, <<>>)
    ELSE Returned(PyTrue, ws_close(ch, ws), <<"close">>, <<>>, NoFrame, <<>>)

\* ----------------------------------------------------------------- connect

\* hashlib.sha256(plain.encode('utf8')).hexdigest()
Sha256Hex(plain) ==
    CASE plain = "secret" ->
           "2bb80d537b1da3e38bd30361aa855686bde0eacd7162fef6a25fe97bf527a25b"
      [] plain = "" ->
           "e3b0c44298fc1c149afbf4c8996fb92427ae41e4649b934ca495991b7852b855"

\* connect_except, had __connect only its second except clause.
connect_except_OneClause(e) ==
    [logs |-> <<LogRec("CRITICAL",
                  "Error occurred in connecting to TelescopeServer: " \o e.msg)>>,
     exc |-> Exc("Exception", "Unable to connect to TelescopeServer: " \o e.msg)]

\* The two except clauses of __connect: what is logged and raised for the
\* exception e of the try block.
connect_except(e) ==
    IF e.type = "JSONDecodeError"
    THEN [logs |-> <<LogRec("CRITICAL",
                      "Did not receive valid response from TelescopeServer.")>>,
          exc |-> Exc("Exception",
                      "Did not receive valid response from TelescopeServer.")]
    ELSE [logs |-> <<LogRec("CRITICAL",
                      "Error occurred in connecting to TelescopeServer: " \o e.msg)>>,
          exc |-> Exc("Exception",
                      "Unable to connect to TelescopeServer: " \o e.msg)]

\* connect_reply_log, had it logged the result member without the fallback
\* `or 'unknown'`.
connect_reply_log_NoFallback(reply) ==
    IF Truthy(Get(reply, "connected"))
    THEN LogRec("INFO", "Successfully connected to TelescopeServer")
    ELSE LogRec("WARNING", "Telescope is currently unavailable: "
                  \o Str(Get(reply, "result")))

\* What __connect logs for the parsed authentication reply (a dict).
connect_reply_log(reply) ==
    IF Truthy(Get(reply, "connected"))
    THEN LogRec("INFO", "Successfully connected to TelescopeServer")
    ELSE LogRec("WARNING", "Telescope is currently unavailable: "
                  \o Str(PyOr(Get(reply, "result"), PyStr("unknown"))))

\* Telescope.__connect(username, host): opens a connection, sends the
\* credentials, reads one reply and returns the websocket (field ws).
\* new is the identity of the connection create_connection opens; createOut,
\* plain (the password typed), sendOut and recvOut are the environment's part.
Telescope__connect(ch, new, username, plain, createOut, sendOut, recvOut) ==
    LET fail(e, c, ops, frames, reply) ==
            LET x == connect_except(e) IN
            [Raised(x.exc, c, ops, frames, reply, x.logs) EXCEPT !.inner = e]
        opened == (new :> [state |-> "open", authed |-> FALSE]) @@ ch
        msg == <<<<"email", PyStr(username)>>,
                 <<"password", PyStr(Sha256Hex(plain))>>>>
        frame == json_dumps(msg)
    IN
    IF createOut = "fail" THEN fail(RefusedError, ch, <<"create!">>, <<>>, NoFrame)
    ELSE
    LET s == ws_send(opened, new, sendOut) IN
    IF s[2] # NoExc THEN fail(s[2], s[1], <<"create", "send!">>, <<>>, NoFrame)
    ELSE
    LET r == ws_recv(s[1], new, recvOut) IN
    IF r[2] # NoExc
    THEN fail(r[2], r[1], <<"create", "send", "recv!">>, <<frame>>, NoFrame)
    ELSE IF r[3].kind = "text"
    THEN fail(JSONDecodeError, r[1], <<"create", "send", "recv">>, <<frame>>, r[3])
    ELSE IF r[3].kind # "object"
    THEN fail(AttributeErrorGet, r[1], <<"create", "send", "recv">>, <<frame>>, r[3])
    ELSE
    LET reply == json_loads(r[3])
        served == [r[1] EXCEPT ![new].authed = Truthy(Get(reply, "connected"))]
    IN  [Returned(NoValue, served, <<"create", "send", "recv">>, <<frame>>, r[3],
                  <<connect_reply_log(reply)>>) EXCEPT !.ws = new]

\* connect, had it caught the failure of __connect and gone on to its
\* `return False`.
connect_SwallowsFailure(ch, selfws, new, username, plain, createOut, sendOut, recvOut) ==
    LET e == Telescope__connect(ch, new, username, plain, createOut, sendOut, recvOut) IN
    IF e.outcome = "raised"
    THEN [e EXCEPT !.outcome = "returned", !.value = PyFalse, !.exc = NoExc,
                   !.ws = selfws]
    ELSE IF e.ws # 0 THEN [e EXCEPT !.value = PyTrue]
    ELSE [e EXCEPT !.value = PyFalse, !.ws = selfws]

\* Telescope.connect(username, host) on an object whose websocket is selfws:
\* field ws of the result is the object's websocket after the call.
connect(ch, selfws, new, username, plain, createOut, sendOut, recvOut) ==
    LET e == Telescope__connect(ch, new, username, plain, createOut, sendOut, recvOut) IN
    IF e.outcome = "raised" THEN [e EXCEPT !.ws = selfws]
    ELSE IF e.ws # 0 THEN [e EXCEPT !.value = PyTrue]
    ELSE [e EXCEPT !.value = PyFalse, !.ws = selfws]

\* ------------------------------------------------------- the typed methods

\* The names the module binds: its imports and the class.
ModuleGlobals ==
    {"os", "json", "time", "hashlib", "logging", "colorlog", "getpass", "ws",
     "Telescope"}

\* One typed method: its parameters after self, their defaults (NoValue: the
\* parameter has none), the command it passes to run_command and the keyword
\* arguments it passes, each as <<keyword, the name its value is read from>>.
Method(name, params, defaults, command, kwargs) ==
    [name |-> name, params |-> params, defaults |-> defaults,
     command |-> command, kwargs |-> kwargs]

NoDefaults(params) == [i \in 1..Len(params) |-> NoValue]
\* Each parameter passed on under its own name.
Same(params) == [i \in 1..Len(params) |-> <<params[i], params[i]>>]
Plain(name) == Method(name, <<>>, <<>>, name, <<>>)
Pass(name, params) == Method(name, params, NoDefaults(params), name, Same(params))

Catalog ==
    << Plain("open_dome"), Plain("dome_open"), Plain("close_dome"),
       Plain("close_down"),
       Method("lock", <<"user", "comment">>, <<NoValue, PyStr("observing")>>,
              "lock", Same(<<"user", "comment">>)),
       Plain("unlock"), Plain("locked"),
       Pass("keep_open", <<"time">>),
       Plain("get_cloud"), Plain("get_dew"), Plain("get_rain"),
       Plain("get_sun_alt"), Plain("get_moon_alt"), Plain("get_weather"),
       Plain("weather_ok"),
       Pass("goto_target", <<"target">>),
       Pass("goto_point", <<"ra", "dec">>),
       Pass("target_visible", <<"target">>),
       Pass("point_visible", <<"ra", "dec">>),
       Pass("target_altaz", <<"target">>),
       Pass("point_altaz", <<"ra", "dec">>),
       Method("offset", <<"dra", "ddec">>, NoDefaults(<<"dra", "ddec">>),
              "offset", <<<<"ra", "ra">>, <<"dec", "dec">>>>),
       Plain("enable_tracking"), Plain("calibrate_motors"), Plain("get_focus"),
       Pass("set_focus", <<"focus">>),
       Plain("auto_focus"), Plain("current_filter"),
       Pass("change_filter", <<"name">>),
       Pass("make_dir", <<"dirname">>),
       Pass("wait", <<"wait">>),
       Plain("wait_until_good"),
       Method("take_exposure",
              <<"filename", "exposure_time", "count", "binning">>,
              <<NoValue, NoValue, PyInt("1"), PyInt("2")>>, "take_exposure",
              Same(<<"filename", "exposure_time", "count", "binning">>)),
       Method("take_dark",
              <<"filename", "exposure_time", "count", "binning">>,
              <<NoValue, NoValue, PyInt("1"), PyInt("2")>>, "take_dark",
              Same(<<"filename", "exposure_time", "count", "binning">>)),
       Method("take_bias", <<"filename", "count", "binning">>,
              <<NoValue, PyInt("1"), PyInt("2")>>, "take_bias",
              Same(<<"filename", "count", "binning">>)) >>

\* The parameters of method m bound for one call: the caller's value for
\* each, or its default when the caller leaves the defaulted ones out.
Bind(m, given, omit) ==
    [i \in 1..Len(m.params) |->
        <<m.params[i],
          IF omit /\ m.defaults[i] # NoValue THEN m.defaults[i] ELSE given[i]>>]

\* The names a method body reads that are bound neither as a parameter (or
\* self) nor in the module, in the order they are read.
Unbound(m) ==
    SelectSeq([i \in 1..Len(m.kwargs) |-> m.kwargs[i][2]],
              LAMBDA n : /\ n \notin {m.params[i] : i \in 1..Len(m.params)}
                         /\ n \notin ModuleGlobals \cup {"self"})

\* The keyword arguments the body of m passes, for the bound parameters.
Kwargs(m, bound) ==
    [i \in 1..Len(m.kwargs) |->
        <<m.kwargs[i][1],
          bound[CHOOSE j \in 1..Len(bound) : bound[j][1] = m.kwargs[i][2]][2]>>]

\* A typed method of the catalog, called with the bound parameters: it
\* evaluates its keyword arguments and returns what run_command returns.
typed_method(ch, ws, m, bound, sendOut, recvOut) ==
    IF Unbound(m) # <<>>
    THEN Raised(NameError(Head(Unbound(m))), ch, <<>>, <<>>, NoFrame, <<>>)
    ELSE run_command(ch, ws, m.command, Kwargs(m, bound), sendOut, recvOut)

\* Telescope.take_flats(): reads the name flats, which nothing binds.
take_flats(ch) ==
    IF "flats" \notin ModuleGlobals \cup {"self"}
    THEN Raised(NameError("flats"), ch, <<>>, <<>>, NoFrame, <<>>)
    ELSE Returned(PyNone, ch, <<>>, <<>>, NoFrame, <<>>)

\* ----------------------------------------------------------------- __init__

\* Telescope.__init_log(): one more handler on the logger named 'telescope',
\* which becomes Telescope.log.
Telescope__init_log(hs) == [log |-> "Logger", handlers |-> hs + 1]

\* __init__, had it called __init_log without testing Telescope.log.
Telescope__init__AlwaysInitLog(lg, hs, ch, new, username, plain, createOut, sendOut, recvOut) ==
    LET l == Telescope__init_log(hs)
        c == connect(ch, 0, new, username, plain, createOut, sendOut, recvOut)
    IN  [log |-> l.log, handlers |-> l.handlers,
         eff |-> IF c.outcome = "returned" THEN [c EXCEPT !.value = PyNone] ELSE c]

\* Telescope.__init__(username, host): the class's log and the logger's
\* handlers after it, and what its connect did on the new object, whose
\* websocket starts as None; the value connect returns is dropped.
Telescope__init__(lg, hs, ch, new, username, plain, createOut, sendOut, recvOut) ==
    LET l == IF lg = "None" THEN Telescope__init_log(hs)
             ELSE [log |-> lg, handlers |-> hs]
        c == connect(ch, 0, new, username, plain, createOut, sendOut, recvOut)
    IN  [log |-> l.log, handlers |-> l.handlers,
         eff |-> IF c.outcome = "returned" THEN [c EXCEPT !.value = PyNone] ELSE c]

\* ------------------------------------------------------------------- state

VARIABLES
    log,        \* Telescope.log: "None" or "Logger"
    handlers,   \* the handlers attached to the logger named 'telescope'
    obj,        \* the Telescope object the caller holds, if any
    chan,       \* the websockets the caller's object refers to, by identity
    last        \* the last call made and what it did

vars == <<log, handlers, obj, chan, last>>

\* No object yet: the caller's variable is unbound.
NoObject == [bound |-> FALSE, websocket |-> 0, pending |-> 0]

\* The channels of ch an object with websocket ws still refers to: a websocket
\* nothing refers to is gone from the program's state.
Held(ch, ws) == [c \in DOMAIN ch \cap {ws} |-> ch[c]]

\* The record of one call: the method, its bound arguments, the caller's
\* object, its channels and the class's log before it, the websocket of the
\* object the call ran on when it ended (ws, 0: None), and the call's effect.
Call(method, args, before, chanBefore, ws, logBefore, e) ==
    [method |-> method, args |-> args, before |-> before,
     chanBefore |-> chanBefore, logBefore |-> logBefore, outcome |-> e.outcome, value |-> e.value,
     exc |-> e.exc, inner |-> e.inner, ws |-> ws, ops |-> e.ops,
     frames |-> e.frames, reply |-> e.reply, logs |-> e.logs]

\* The identity of a websocket create_connection makes: one that no object
\* of the program has, the caller's object having websocket ws.
FreshId(ws) == IF ws = 1 THEN 2 ELSE 1

NoCall ==
    Call("-", <<>>, NoObject, <<>>, 0, "None",
         Returned(NoValue, <<>>, <<>>, <<>>, NoFrame, <<>>))

\* How many times op occurs in ops.
Count(ops, op) == Cardinality({i \in 1..Len(ops) : ops[i] = op})

\* The command frames of the object written and not yet answered, after a
\* call that made the channel operations ops.
Pending(before, ops) == before + Count(ops, "send") - Count(ops, "recv")

Init ==
    /\ log = "None"
    /\ handlers = 0
    /\ obj = NoObject
    /\ chan = <<>>
    /\ last = NoCall

\* ------------------------------------------------------ the environment

Obj(pairs) == [kind |-> "object", pairs |-> pairs]

Usernames == {"observer"}
Passwords == {"secret"}
CreateOutcomes == {"ok", "fail"}

\* What the server may answer to the credentials.
AuthFrames ==
    LET c == {<<>>} \cup {<<<<"connected", t>>>> : t \in {"true", "false"}}
        r == {<<>>} \cup {<<<<"result", t>>>> : t \in {"\"\"", "\"bad weather\""}}
    IN  {Obj(x \o y) : x \in c, y \in r}

\* What the server may answer to a command.
CommandFrames ==
    LET s == {<<>>} \cup {<<<<"success", t>>>> : t \in {"true", "1", "false"}}
        r == {<<>>} \cup {<<<<"result", JsonText(p)>>>> :
                             p \in ReplyValues \ {PyTrue, PyInt("1")}}
    IN  {Obj(x \o y) : x \in s, y \in r}

\* The fewer answers tried on each of the typed methods.
TypedFrames ==
    { Obj(<<<<"success", "true">>, <<"result", "1">>>>),
      Obj(<<<<"success", "false">>, <<"result", "\"bad weather\"">>>>) }

\* One send and the recv after it: the send fails, or it succeeds and the
\* recv ends in one of the given ways.
Exchanges(recvs) ==
    {[send |-> "fail", recv |-> NoFrame]}
        \cup {[send |-> "ok", recv |-> r] : r \in recvs}

Failures == {LostConn, TimedOut, GarbageFrame, ArrayFrame}

\* The caller's positional values, of which a method takes as many as it
\* has parameters.
ArgTuples ==
    { <<PyStr("M31"), PyInt("7"), PyInt("3"), PyInt("4")>> }

\* The commands and keyword arguments run_command is called with directly.
DirectCommands == {"park"}
DirectKwargs == {<<<<"speed", PyInt("7")>>>>}

\* ----------------------------------------------------------------- actions

\* t = Telescope(username, host): the caller's variable is bound to the new
\* object when the constructor returns, and keeps its value when it raises.
Construct ==
    \E u \in Usernames, p \in Passwords, c \in CreateOutcomes,
       x \in Exchanges(Failures \cup AuthFrames) :
        /\ LET r == Telescope__init__(log, handlers, chan,
                                      FreshId(obj.websocket), u, p, c,
                                      x.send, x.recv)
               e == r.eff
           IN  /\ log' = r.log
               /\ handlers' = r.handlers
               /\ obj' = IF e.outcome = "returned"
                         THEN [bound |-> TRUE, websocket |-> e.ws, pending |-> 0]
                         ELSE obj
               /\ chan' = Held(e.chan, obj'.websocket)
               /\ last' = Call("__init__", <<<<"username", PyStr(u)>>>>, obj,
                               chan, e.ws, log, e)

\* t.connect(username, host)
CallConnect ==
    \E u \in Usernames, p \in Passwords, c \in CreateOutcomes,
       x \in Exchanges(Failures \cup AuthFrames) :
        /\ obj.bound
        /\ LET e == connect(chan, obj.websocket, FreshId(obj.websocket),
                            u, p, c, x.send, x.recv)
           IN  /\ obj' = [obj EXCEPT !.websocket = e.ws]
               /\ chan' = Held(e.chan, e.ws)
               /\ last' = Call("connect", <<<<"username", PyStr(u)>>>>, obj,
                               chan, e.ws, log, e)
               /\ UNCHANGED <<log, handlers>>

\* A call that dispatches a command on the caller's object, with effect e.
Dispatch(method, args, e) ==
    /\ Pending(obj.pending, e.ops) <= MaxPending
    /\ obj' = [obj EXCEPT !.pending = Pending(obj.pending, e.ops)]
    /\ chan' = Held(e.chan, obj.websocket)
    /\ last' = Call(method, args, obj, chan, obj.websocket, log, e)
    /\ UNCHANGED <<log, handlers>>

\* t.is_alive()
CallIsAlive ==
    \E x \in Exchanges(Failures \cup TypedFrames \cup {Obj(<<>>)}) :
        /\ obj.bound
        /\ Dispatch("is_alive", <<>>,
                    is_alive(chan, obj.websocket, x.send, x.recv))

\* t.disconnect()
CallDisconnect ==
    /\ obj.bound
    /\ Dispatch("disconnect", <<>>, disconnect(chan, obj.websocket))

\* t.<method>(...) for a typed method of the catalog.
CallTyped ==
    \E i \in 1..Len(Catalog), omit \in BOOLEAN,
       x \in Exchanges({LostConn} \cup TypedFrames) :
        \E given \in {SubSeq(g, 1, Len(Catalog[i].params)) : g \in ArgTuples} :
            /\ obj.bound
            /\ omit => \E j \in 1..Len(Catalog[i].params) :
                          Catalog[i].defaults[j] # NoValue
            /\ LET m == Catalog[i]
                   bound == Bind(m, given, omit)
               IN  Dispatch(m.name, bound,
                            typed_method(chan, obj.websocket, m, bound,
                                         x.send, x.recv))

\* t.take_flats()
CallTakeFlats ==
    /\ obj.bound
    /\ Dispatch("take_flats", <<>>, take_flats(chan))

\* t.run_command(command, **kwargs)
CallRunCommand ==
    \E command \in DirectCommands, kwargs \in DirectKwargs,
       x \in Exchanges(Failures \cup CommandFrames) :
        /\ obj.bound
        /\ Dispatch("run_command", <<<<"command", PyStr(command)>>>> \o kwargs,
                    run_command(chan, obj.websocket, command, kwargs,
                                x.send, x.recv))

Next ==
    \/ Construct
    \/ CallConnect
    \/ CallIsAlive
    \/ CallDisconnect
    \/ CallTyped
    \/ CallTakeFlats
    \/ CallRunCommand

Spec == Init /\ [][Next]_vars

\* ============================================================ properties

TypedNames == {Catalog[i].name : i \in 1..Len(Catalog)}
\* The methods that dispatch a command through run_command.
Dispatchers == TypedNames \cup {"run_command", "is_alive"}

\* The JSON literal of member key of an object frame, "" when it has none.
Member(frame, key) ==
    IF \E i \in 1..Len(frame.pairs) : frame.pairs[i][1] = key
    THEN frame.pairs[CHOOSE i \in 1..Len(frame.pairs) : frame.pairs[i][1] = key][2]
    ELSE ""

\* The JSON literals Python takes for false, and "" for a missing member.
FalsyTexts == {"", "null", "false", "0", "\"\"", "[]", "{}"}

\* The caller's object has a websocket, and it is closed.
Unusable == obj.bound /\ chan[obj.websocket].state = "closed"

\* C1: on one Session the command frames sent and the reply frames consumed
\* differ by 0 or 1 in every state, and no call writes a command frame while
\* an earlier command frame of the Session is still unanswered.
C1_StrictAlternation ==
    /\ obj.pending \in {0, 1}
    /\ (last.method \in Dispatchers /\ Count(last.ops, "send") > 0)
          => last.before.pending = 0

\* C2: a call of a typed method, unless the channel refuses the send, writes
\* exactly one frame, whose members are the command (the method's name) and
\* the method's parameters with the caller's values, and no others.
C2_FrameEqualsCatalog ==
    (last.method \in TypedNames /\ Count(last.ops, "send!") = 0)
        => /\ Len(last.frames) = 1
           /\ Len(last.frames[1].pairs) = Len(last.args) + 1
           /\ {last.frames[1].pairs[i] : i \in 1..Len(last.frames[1].pairs)}
                 = {<<"command", JsonText(PyStr(last.method))>>}
                      \cup {<<last.args[i][1], JsonText(last.args[i][2])>> :
                              i \in 1..Len(last.args)}

\* C3: for a reply that is a JSON object, run_command (and so a typed
\* method) returns the result member as it is when success is truthy, and
\* returns None without raising when success is falsy or missing, leaving the
\* object's websocket the same and open.
C3_OutcomeBySuccessFlag ==
    (last.method \in Dispatchers \ {"is_alive"} /\ last.reply.kind = "object")
        => IF Member(last.reply, "success") \notin FalsyTexts
           THEN /\ last.outcome = "returned"
                /\ IF Member(last.reply, "result") = ""
                   THEN last.value = PyNone
                   ELSE JsonText(last.value) = Member(last.reply, "result")
           ELSE /\ last.outcome = "returned"
                /\ last.value = PyNone
                /\ last.exc = NoExc
                /\ obj.websocket = last.before.websocket
                /\ chan = last.chanBefore
                /\ chan[obj.websocket].state = "open"

\* A command whose reply says success with a falsy result.
C3_Witness ==
    /\ last.method = "run_command"
    /\ Member(last.reply, "success") = "1"
    /\ Member(last.reply, "result") = "[]"
    /\ last.value = PyEmptyList

\* C4: is_alive always returns, and returns False when its dispatch raised;
\* every other method that dispatches a command lets the exception out.
C4_OnlyIsAliveSwallows ==
    /\ last.method = "is_alive"
          => /\ last.outcome = "returned"
             /\ last.inner # NoExc => last.value = PyFalse
    /\ (last.method \in Dispatchers \ {"is_alive"} /\ last.inner # NoExc)
          => /\ last.outcome = "raised"
             /\ last.exc = last.inner

\* is_alive whose recv raised.
C4_Witness ==
    /\ last.method = "is_alive"
    /\ last.ops = <<"send", "recv!">>
    /\ last.value = PyFalse

\* C5: is_alive returns False when the server answers the is_alive command
\* with a reply whose success is falsy or missing.
C5_FalseOnRefusal ==
    (/\ last.method = "is_alive"
     /\ last.reply.kind = "object"
     /\ Member(last.reply, "success") \in FalsyTexts)
        => last.value = PyFalse

\* The message of the exception a non-JSON reply makes __connect raise.
InvalidResponse == "Did not receive valid response from TelescopeServer."

\* C6: a constructor whose one reply is not JSON raises an Exception saying
\* that no valid response was received; the new object's websocket is still
\* None, the caller holds what it held before, and the call made one
\* connection, one send and one recv, the failing recv being its last
\* channel operation.
C6_InvalidReplyAbortsConstruction ==
    (last.method = "__init__" /\ last.reply.kind = "text")
        => /\ last.outcome = "raised"
           /\ last.exc = Exc("Exception", InvalidResponse)
           /\ last.ws = 0
           /\ obj = last.before
           /\ chan = last.chanBefore
           /\ last.ops = <<"create", "send", "recv">>
           /\ Len(last.frames) = 1

\* A second construction that fails on a non-JSON reply, the caller still
\* holding the object of the first.
C6_Witness ==
    /\ last.method = "__init__"
    /\ last.reply = GarbageFrame
    /\ last.outcome = "raised"
    /\ obj.bound

\* The reason __connect is to log for an authentication reply: its result
\* member when that is a non-empty string, and "unknown" otherwise.
Reason(frame) ==
    IF Member(frame, "result") = "\"bad weather\"" THEN "bad weather"
    ELSE "unknown"

\* C7: when the authentication reply is a JSON object whose connected member
\* is falsy or missing, the constructor and connect return, having logged one
\* warning with the server's result (or "unknown"); the object holds the new
\* websocket, open, and nothing else about the authentication.  A command
\* dispatched on an object whose websocket is open and unauthenticated is
\* written to it.
C7_FailedAuthKeepsChannel ==
    /\ (/\ last.method \in {"__init__", "connect"}
        /\ last.reply.kind = "object"
        /\ Member(last.reply, "connected") \in FalsyTexts)
          => /\ last.outcome = "returned"
             /\ last.logs = <<LogRec("WARNING",
                    "Telescope is currently unavailable: " \o Reason(last.reply))>>
             /\ last.ws # 0
             /\ obj = [bound |-> TRUE, websocket |-> last.ws,
                       pending |-> IF last.method = "connect"
                                   THEN last.before.pending ELSE 0]
             /\ chan[obj.websocket] = [state |-> "open", authed |-> FALSE]
    /\ (/\ last.method \in {"run_command", "is_alive"}
        /\ last.chanBefore[last.before.websocket]
              = [state |-> "open", authed |-> FALSE])
          => Head(last.ops) \in {"send", "send!"}

\* A command answered on the websocket of an object whose authentication
\* the server refused.
C7_Witness ==
    /\ last.method = "run_command"
    /\ ~last.chanBefore[last.before.websocket].authed
    /\ last.ops = <<"send", "recv">>
    /\ last.outcome = "returned"

\* C8: once a Telescope has been constructed, or its construction has failed,
\* the logger named 'telescope' has exactly one handler, and before that none.
C8_OneHandler ==
    /\ log = "None" => (handlers = 0 /\ last = NoCall)
    /\ last # NoCall => (log = "Logger" /\ handlers = 1)

\* A construction that fails after an earlier one, with one handler attached.
C8_Witness ==
    /\ last.method = "__init__"
    /\ last.logBefore = "Logger"
    /\ last.outcome = "raised"
    /\ handlers = 1

\* C9: once the object's websocket is closed, no operation on the object
\* makes it usable again.
C9_NeverUsableAgain ==
    [][(Unusable /\ last'.method # "__init__") => Unusable']_vars

\* C9, amended: disconnect closes the websocket and returns True; while the
\* object's websocket is closed every command dispatch raises inside without
\* writing a frame, and the object stays unusable under every operation but a
\* connect that returns.
C9_UnusableUntilConnect ==
    [][/\ last'.method = "disconnect"
            => (last'.value = PyTrue /\ Unusable')
       /\ (Unusable /\ last'.method \in Dispatchers)
            => /\ last'.inner # NoExc
               /\ last'.frames = <<>>
               /\ last'.reply = NoFrame
       /\ (Unusable /\ ~(last'.method \in {"__init__", "connect"}
                          /\ last'.outcome = "returned"))
            => (Unusable' /\ obj'.websocket = obj.websocket)]_vars

\* A dispatch refused by the websocket that disconnect closed.
C9_Witness ==
    /\ last.method \in TypedNames
    /\ last.before.bound
    /\ last.chanBefore[last.before.websocket].state = "closed"
    /\ last.ops = <<"send!">>
    /\ Unusable

\* C10: connect either returns True, the object holding the websocket the
\* call opened, or raises, the object and its websocket as before; it never
\* returns False.
C10_ConnectTrueOrRaises ==
    last.method = "connect"
        => /\ last.value # PyFalse
           /\ \/ /\ last.outcome = "returned"
                 /\ last.value = PyTrue
                 /\ Head(last.ops) = "create"
                 /\ obj.websocket = last.ws
                 /\ obj.websocket # last.before.websocket
                 /\ obj.websocket \in DOMAIN chan
              \/ /\ last.outcome = "raised"
                 /\ obj = last.before
                 /\ chan = last.chanBefore

\* connect returning True although the server refused the credentials.
C10_Witness ==
    /\ last.method = "connect"
    /\ last.value = PyTrue
    /\ Member(last.reply, "connected") = "false"
    /\ ~chan[obj.websocket].authed

====
